---- MODULE Spec2Model ----
(***************************************************************************)
(* Model of gpu_wizard_execute (src/src/main.rs): the configuration        *)
(* resolution of main, the admission loop wait_for_resource, the telemetry *)
(* parser parse_cuda_info, the selector check_resource_enough and the      *)
(* launcher run_command.                                                   *)
(*                                                                         *)
(* Text is a sequence of one-character strings, so that splitting,         *)
(* suffix stripping, number parsing and number formatting are computed     *)
(* character by character as the Rust code computes them.                  *)
(*                                                                         *)
(* A usize is 64 bits wide.  A value v of the model stands for the usize   *)
(* v when v >= 0 and for 2^64 + v when v < 0 (the residue of a wrapped     *)
(* subtraction); every magnitude of the model is far below 2^63, so        *)
(* addition and subtraction of representatives are exact modulo 2^64 and   *)
(* ULess is the unsigned order.                                            *)
(***************************************************************************)
EXTENDS Integers, Sequences, FiniteSets

VARIABLES
  overflow_checks,  \* build profile: TRUE = arithmetic overflow panics (debug),
                    \* FALSE = arithmetic overflow wraps (release)
  core_count,       \* config.core_count      (required unit count)
  memory_per_core,  \* config.memory_per_core (GiB)
  gpu_percent,      \* config.gpu_percent     (required free percent)
  cum_count,        \* config.check_times     (stability cycles)
  pc,               \* position of the single thread of control
  cur_count,        \* wait_for_resource: consecutive sufficient cycles
  stdout,           \* parse_cuda_info: output of the telemetry tool, this cycle
  gpu_info_list,    \* wait_for_resource: the snapshot of this cycle
  selected,         \* wait_for_resource: the match scrutinee, this cycle
  gpus,             \* main: the list returned by wait_for_resource
  hist,             \* history: per finished cycle, was the selection Some
  prev_candidate,   \* history: selection of the latest earlier sufficient cycle
  cli,              \* main: the parsed command line
  file,             \* the file at the configuration path
  check_interval,   \* config.check_interval
  gpu_env,          \* config.gpu_env
  set_envs,         \* config.set_envs
  unset_envs,       \* config.unset_envs
  environ,          \* the environment this process inherited
  gpus_arg,         \* run_command: its gpus argument
  child_env,        \* run_command: the environment the child was spawned with
  warnings,         \* run_command: the entries warned about
  child_status,     \* run_command: the status child.wait() returned
  exit_code,        \* the code this process exited with
  launches          \* history: how many times run_command was entered

\* the fields of config that main and run_command read after the loop
launch_config == <<check_interval, gpu_env, set_envs, unset_envs>>

\* what run_command writes
launcher == <<gpus_arg, child_env, warnings, child_status, exit_code, launches>>

\* what the loop neither reads nor writes
outside == <<cli, file, environ, launch_config, launcher>>

vars == <<overflow_checks, core_count, memory_per_core, gpu_percent, cum_count,
          pc, cur_count, stdout, gpu_info_list, selected, gpus, hist,
          prev_candidate, outside>>

config == <<overflow_checks, core_count, memory_per_core, gpu_percent, cum_count>>

-----------------------------------------------------------------------------
(* Bounds of the model.                                                    *)

MaxCycles == 4
MaxUnits == 2
MaxUnitsFirst == 4
MaxCoreCount == 2
MaxCheckTimes == 3

MaxSetEnvs == 2

MaxUnsetEnvs == 1

-----------------------------------------------------------------------------
(* usize arithmetic.                                                       *)

ULess(a, b) == IF (a < 0) = (b < 0) THEN a < b ELSE b < 0

UGeq(a, b) == ~ULess(a, b)

\* a - b on usize: the subtraction overflows exactly when a < b (unsigned).
SubOverflows(a, b) == ULess(a, b)

WrappingSub(a, b) == a - b

-----------------------------------------------------------------------------
(* Text.                                                                   *)

Digits == <<"0", "1", "2", "3", "4", "5", "6", "7", "8", "9">>

IsDigit(c) == \E d \in 1..10 : Digits[d] = c

DigitVal(c) == (CHOOSE d \in 1..10 : Digits[d] = c) - 1

\* usize::to_string
RECURSIVE to_string(_)
to_string(n) ==
  IF n < 10 THEN <<Digits[n + 1]>>
  ELSE to_string(n \div 10) \o <<Digits[(n % 10) + 1]>>

Err == [ok |-> FALSE]

Ok(v) == [ok |-> TRUE, val |-> v]

RECURSIVE DigitsValue(_, _)
DigitsValue(s, acc) ==
  IF s = <<>> THEN acc
  ELSE DigitsValue(Tail(s), acc * 10 + DigitVal(Head(s)))

\* str::parse::<usize>() and str::parse::<u32>(): an optional leading '+',
\* then one or more ASCII digits.  (The texts of the model have at most 8
\* digits, so the overflow error of the parse is out of reach.)
ParseUnsigned(s) ==
  LET body == IF s # <<>> /\ Head(s) = "+" THEN Tail(s) ELSE s
  IN IF body = <<>> \/ \E i \in 1..Len(body) : ~IsDigit(body[i])
       THEN Err
       ELSE Ok(DigitsValue(body, 0))

\* position of the first occurrence of sep in s, 0 when there is none
IndexOf(s, sep) ==
  LET at == {i \in 1..(Len(s) - Len(sep) + 1) : SubSeq(s, i, i + Len(sep) - 1) = sep}
  IN IF at = {} THEN 0 ELSE CHOOSE i \in at : \A j \in at : i <= j

\* str::split(sep): every piece, empty ones included
RECURSIVE Split(_, _)
Split(s, sep) ==
  LET i == IndexOf(s, sep)
  IN IF i = 0 THEN <<s>>
     ELSE <<SubSeq(s, 1, i - 1)>> \o Split(SubSeq(s, i + Len(sep), Len(s)), sep)

\* a join that keeps the first piece only
JoinFirst(pieces, sep) == IF pieces = <<>> THEN <<>> ELSE pieces[1]

\* [String]::join(sep)
RECURSIVE Join(_, _)
Join(pieces, sep) ==
  IF pieces = <<>> THEN <<>>
  ELSE IF Len(pieces) = 1 THEN pieces[1]
  ELSE pieces[1] \o sep \o Join(Tail(pieces), sep)

NewLine == <<"\n">>

FieldSep == <<",", " ">>

PercentSuffix == <<" ", "%">>

MiBSuffix == <<" ", "M", "i", "B">>

-----------------------------------------------------------------------------
(* parse_cuda_info                                                         *)

Panic == [ok |-> FALSE]

\* a conversion that rounds up instead of down
MiBToGiBRoundUp(memory_free) == (memory_free + 1023) \div 1024

\* line 220: memory_free / 1024 on u32
MiBToGiB(memory_free) == memory_free \div 1024

\* line 219: 100 - gpu_percent on usize
GpuFree(busy) == WrappingSub(100, busy)

\* s[..s.len() - n]: panics when the string is shorter than n (the
\* subtraction overflows, or wraps into an out-of-range slice end)
StripLast(s, n) == IF Len(s) < n THEN Err ELSE Ok(SubSeq(s, 1, Len(s) - n))

\* one iteration of the loop body over a non-empty line
ParseLine(line, oc) ==
  LET fields == Split(line, FieldSep)
      index == ParseUnsigned(fields[1])
      pct_text == IF Len(fields) >= 2 THEN StripLast(fields[2], 2) ELSE Err
      pct == IF pct_text.ok THEN ParseUnsigned(pct_text.val) ELSE Err
      mem_text == IF Len(fields) >= 3 THEN StripLast(fields[3], 4) ELSE Err
      mem == IF mem_text.ok THEN ParseUnsigned(mem_text.val) ELSE Err
  IN IF ~index.ok \/ ~pct.ok \/ ~mem.ok THEN Panic
     ELSE IF oc /\ SubOverflows(100, pct.val) THEN Panic
     ELSE Ok([index |-> index.val,
              gpu_free |-> GpuFree(pct.val),
              memory_free |-> MiBToGiB(mem.val)])

\* the for loop: stops at the first empty line or at the end of the text
RECURSIVE ParseLines(_, _, _)
ParseLines(lines, acc, oc) ==
  IF lines = <<>> \/ Head(lines) = <<>> THEN Ok(acc)
  ELSE LET r == ParseLine(Head(lines), oc)
       IN IF r.ok THEN ParseLines(Tail(lines), Append(acc, r.val), oc)
          ELSE Panic

ParseReport(text, oc) == ParseLines(Split(text, NewLine), <<>>, oc)

-----------------------------------------------------------------------------
(* check_resource_enough                                                   *)

None == [kind |-> "None"]

Some(v) == [kind |-> "Some", val |-> v]

Panicked == [kind |-> "Panic"]

\* a gate that passes a unit meeting either threshold
QualifiesEither(gpu_info, mpc, gp) ==
  gpu_info.memory_free >= mpc \/ UGeq(gpu_info.gpu_free, gp)

\* line 236: the qualification gate (memory_free is a u32, gpu_free a usize)
Qualifies(gpu_info, mpc, gp) ==
  gpu_info.memory_free >= mpc /\ UGeq(gpu_info.gpu_free, gp)

\* lines 234-239: (index, gpu_free) of each qualifying unit, in snapshot order
RECURSIVE AvailableGpu(_, _, _)
AvailableGpu(list, mpc, gp) ==
  IF list = <<>> THEN <<>>
  ELSE LET rest == AvailableGpu(Tail(list), mpc, gp)
           g == Head(list)
       IN IF Qualifies(g, mpc, gp) THEN <<<<g.index, g.gpu_free>>>> \o rest
          ELSE rest

\* line 241: the sort key |x| 100 - x.1
SortKey(x) == WrappingSub(100, x[2])

KeyOverflows(x) == SubOverflows(100, x[2])

\* x goes after every element whose key is not greater (unsigned) than its own
Insert(x, sorted) ==
  LET p == Cardinality({i \in 1..Len(sorted) :
                          ~ULess(SortKey(x), SortKey(sorted[i]))})
  IN SubSeq(sorted, 1, p) \o <<x>> \o SubSeq(sorted, p + 1, Len(sorted))

\* slice::sort_by_key: stable, ascending in the key
RECURSIVE SortByKey(_)
SortByKey(s) ==
  IF s = <<>> THEN <<>>
  ELSE Insert(s[Len(s)], SortByKey(SubSeq(s, 1, Len(s) - 1)))

\* a slice that keeps every qualifying unit
TakeAll(s, n) == s

\* line 247: gpus[0..core_count]
Take(s, n) == SubSeq(s, 1, n)

\* a comparison that wants one unit more than required
EnoughStrict(available, cc) == Len(available) > cc

\* line 240: enough units qualify
Enough(available, cc) == Len(available) >= cc

check_resource_enough(list, cc, mpc, gp, oc) ==
  LET available == AvailableGpu(list, mpc, gp)
  IN IF Enough(available, cc)
       THEN IF oc /\ Len(available) >= 2
                 /\ \E i \in 1..Len(available) : KeyOverflows(available[i])
              THEN Panicked
              ELSE LET sorted == SortByKey(available)
                       ids == [i \in 1..Len(sorted) |-> to_string(sorted[i][1])]
                   IN Some(Take(ids, cc))
       ELSE None

-----------------------------------------------------------------------------
(* The telemetry tool: what nvidia-smi --query-gpu                         *)
(* index,utilization.gpu,memory.free --format csv,noheader may print.      *)

\* (busy percent, free MiB) of a reported unit
UnitKinds == {<<70, 16384>>, <<10, 8191>>, <<50, 1023>>, <<101, 16384>>}

FormatLine(index, busy, mib) ==
  to_string(index) \o FieldSep \o to_string(busy) \o PercentSuffix
    \o FieldSep \o to_string(mib) \o MiBSuffix

\* one line per unit, index = position, each line ended by a newline
RECURSIVE FormatUnits(_, _)
FormatUnits(units, first) ==
  IF units = <<>> THEN <<>>
  ELSE FormatLine(first, Head(units)[1], Head(units)[2]) \o NewLine
         \o FormatUnits(Tail(units), first + 1)

FormatReport(units) == FormatUnits(units, 0)

UnitSeqs(n) == UNION {[1..m -> UnitKinds] : m \in 0..n}

WellFormedReports(n) == {FormatReport(u) : u \in UnitSeqs(n)}

GoodLine == FormatLine(0, 10, 8191)

\* record lines that are not of the form "<index>, <busy> %, <free> MiB"
BadLines ==
  { <<"x">> \o FieldSep \o <<"1", "0">> \o PercentSuffix \o FieldSep
      \o to_string(8191) \o MiBSuffix,                       \* x, 10 %, 8191 MiB
    <<"1">> \o FieldSep \o <<"x">> \o PercentSuffix \o FieldSep
      \o to_string(8191) \o MiBSuffix,                       \* 1, x %, 8191 MiB
    <<"1">> \o FieldSep \o <<"1", "0">> \o PercentSuffix \o FieldSep
      \o <<"x">> \o MiBSuffix,                               \* 1, 10 %, x MiB
    <<"1">> \o FieldSep \o <<"1", "0">> \o FieldSep
      \o to_string(8191) \o MiBSuffix,                       \* 1, 10, 8191 MiB
    <<"1">> \o FieldSep \o <<"1", "0", "0", "0">> \o FieldSep
      \o to_string(8191) \o MiBSuffix,                       \* 1, 1000, 8191 MiB
    <<"1">> \o FieldSep \o <<"1", "0">> \o PercentSuffix \o FieldSep
      \o to_string(8191),                                    \* 1, 10 %, 8191
    <<"1">> \o FieldSep \o <<"1", "0">> \o PercentSuffix \o FieldSep
      \o to_string(81910000),                                \* 1, 10 %, 81910000
    <<"1">> \o FieldSep \o <<"%">> \o FieldSep
      \o to_string(8191) \o MiBSuffix,                       \* 1, %, 8191 MiB
    <<"1">> \o FieldSep \o <<"1", "0">> \o PercentSuffix }   \* 1, 10 %

\* a malformed line alone, after a good line, before a good line, and after
\* a blank line; and a good report whose last line has no newline
OddReports ==
  UNION { { b \o NewLine,
            GoodLine \o NewLine \o b \o NewLine,
            b \o NewLine \o GoodLine \o NewLine,
            GoodLine \o NewLine \o NewLine \o b \o NewLine } : b \in BadLines }
    \cup { GoodLine, NewLine \o GoodLine \o NewLine }

\* the reports of the loop: well-formed ones and one-line malformed ones
Reports == WellFormedReports(MaxUnits) \cup {b \o NewLine : b \in BadLines}

\* the reports of the first cycle taken alone
ReportsFirst == WellFormedReports(MaxUnitsFirst) \cup OddReports

-----------------------------------------------------------------------------
(* The program.                                                            *)

Unset == [kind |-> "Unset"]

CudaVisibleDevices ==
  <<"C", "U", "D", "A", "_", "V", "I", "S", "I", "B", "L", "E", "_",
    "D", "E", "V", "I", "C", "E", "S">>

\* line 314: check_times: 1
DefaultCheckTimes == 1

\* a default of two stability cycles
DefaultConfigTwoChecks ==
  [core_count |-> 1, memory_per_core |-> 1, gpu_percent |-> 50,
   check_times |-> 2, check_interval |-> 15,
   gpu_env |-> CudaVisibleDevices, set_envs |-> <<>>, unset_envs |-> <<>>]

\* lines 309-320
default_config ==
  [core_count |-> 1, memory_per_core |-> 1, gpu_percent |-> 50,
   check_times |-> DefaultCheckTimes, check_interval |-> 15,
   gpu_env |-> CudaVisibleDevices, set_envs |-> <<>>, unset_envs |-> <<>>]

\* the file at the configuration path: missing, not a Config in JSON, or a
\* Config in JSON (held as the Config it deserializes to)
Absent == [kind |-> "absent"]

Garbage == [kind |-> "garbage"]

ConfigFile(c) == [kind |-> "config", val |-> c]

\* lines 322-341
read_config_from_file(f, strict) ==
  IF f.kind = "absent"
    THEN IF strict THEN Panic ELSE Ok(default_config)
    ELSE IF f.kind = "garbage" THEN Panic ELSE Ok(f.val)

\* the parsed command line (lines 47-103), without the verbosity flag
Cli(cc, mpc, gp, ct, ci, ge, se, ue, path, print, save, cmd) ==
  [core_count |-> cc, memory_per_core |-> mpc, gpu_percent |-> gp,
   check_times |-> ct, check_interval |-> ci, gpu_env |-> ge,
   set_envs |-> se, unset_envs |-> ue, config_path |-> path,
   print_config |-> print, save_config |-> save, cmd |-> cmd]

\* the command of the runs that go on to the loop: sh -c "true"
TrueCmd == <<<<"t", "r", "u", "e">>>>

\* the environment of the runs that do not look at it
BaseEnviron == {<<<<"H", "O", "M", "E">>, <<"/">>>>}

\* the positions of main before wait_for_resource is called
Resolving == {"main", "overrides", "resolved"}

\* line 106: the command line is parsed; nothing else exists yet (the fields
\* of config are written by ReadConfig before anything reads them)
Start ==
  /\ pc = "main"
  /\ core_count = 0
  /\ memory_per_core = 0
  /\ gpu_percent = 0
  /\ cum_count = 0
  /\ check_interval = 0
  /\ gpu_env = <<>>
  /\ set_envs = <<>>
  /\ unset_envs = <<>>
  /\ cur_count = 0
  /\ stdout = <<>>
  /\ gpu_info_list = <<>>
  /\ selected = Unset
  /\ gpus = <<>>
  /\ hist = <<>>
  /\ prev_candidate = None
  /\ gpus_arg = <<>>
  /\ child_env = {}
  /\ warnings = <<>>
  /\ child_status = None
  /\ exit_code = None
  /\ launches = 0

\* the path given with --config-path
ConfigPath == <<"c", ".", "j", "s", "o", "n">>

\* the runs of the loop: the four thresholds given on the command line,
\* check_times among checks, the configuration path among paths, a command
\* to run
LoopClis(checks, paths) ==
  { Cli(Some(cc), Some(mpc), Some(gp), ct, None, None, None, None, path,
        FALSE, FALSE, TrueCmd) :
      cc \in 0..MaxCoreCount, mpc \in {0, 7}, gp \in {0, 50}, ct \in checks,
      path \in paths }

\* no configuration file exists, at the given path or at .plan.json
Init ==
  /\ overflow_checks \in BOOLEAN
  /\ cli \in LoopClis({Some(k) : k \in 0..MaxCheckTimes}, {None, Some(ConfigPath)})
  /\ file = Absent
  /\ environ = BaseEnviron
  /\ Start

\* every field of config
AllConfig == <<core_count, memory_per_core, gpu_percent, cum_count, launch_config>>

\* the rest of the state, for the steps that resolve the configuration
Unresolved ==
  <<overflow_checks, cur_count, stdout, gpu_info_list, selected, gpus, hist,
    prev_candidate, cli, environ, launcher>>

\* line 124: let mut config = read_config_from_file(config_path, strict)
ReadConfig ==
  /\ pc = "main"
  /\ LET r == read_config_from_file(file, cli.config_path.kind = "Some")
     IN IF r.ok
          THEN /\ core_count' = r.val.core_count
               /\ memory_per_core' = r.val.memory_per_core
               /\ gpu_percent' = r.val.gpu_percent
               /\ cum_count' = r.val.check_times
               /\ check_interval' = r.val.check_interval
               /\ gpu_env' = r.val.gpu_env
               /\ set_envs' = r.val.set_envs
               /\ unset_envs' = r.val.unset_envs
               /\ pc' = "overrides"
          ELSE /\ pc' = "panicked"
               /\ UNCHANGED AllConfig
  /\ UNCHANGED <<Unresolved, file>>

\* a resolution in which the value of the file wins over the command line
FileWins(opt, cur) == cur

\* lines 126-143: if let Some(v) = cli.field { config.field = v }
Override(opt, cur) == IF opt.kind = "Some" THEN opt.val ELSE cur

\* lines 144-153: the list fields, overridden by a non-empty list only
OverrideList(opt, cur) ==
  IF opt.kind = "Some" /\ Len(opt.val) > 0 THEN opt.val ELSE cur

\* lines 126-153
ApplyOverrides ==
  /\ pc = "overrides"
  /\ core_count' = Override(cli.core_count, core_count)
  /\ memory_per_core' = Override(cli.memory_per_core, memory_per_core)
  /\ gpu_percent' = Override(cli.gpu_percent, gpu_percent)
  /\ cum_count' = Override(cli.check_times, cum_count)
  /\ check_interval' = Override(cli.check_interval, check_interval)
  /\ gpu_env' = Override(cli.gpu_env, gpu_env)
  /\ set_envs' = OverrideList(cli.set_envs, set_envs)
  /\ unset_envs' = OverrideList(cli.unset_envs, unset_envs)
  /\ pc' = "resolved"
  /\ UNCHANGED <<Unresolved, file>>

\* the effective configuration, as save_config writes it
EffectiveConfig ==
  [core_count |-> core_count, memory_per_core |-> memory_per_core,
   gpu_percent |-> gpu_percent, check_times |-> cum_count,
   check_interval |-> check_interval, gpu_env |-> gpu_env,
   set_envs |-> set_envs, unset_envs |-> unset_envs]

\* lines 155-175: print the configuration and return, or save it when asked,
\* then print the help and return when there is no command
Prelude ==
  /\ pc = "resolved"
  /\ IF cli.print_config
       THEN pc' = "exited" /\ exit_code' = Some(0) /\ file' = file
       ELSE /\ file' = IF cli.save_config THEN ConfigFile(EffectiveConfig) ELSE file
            /\ IF cli.cmd = <<>>
                 THEN pc' = "exited" /\ exit_code' = Some(0)
                 ELSE pc' = "query" /\ exit_code' = exit_code
  /\ UNCHANGED <<config, AllConfig, cur_count, stdout, gpu_info_list, selected,
                 gpus, hist, prev_candidate, cli, environ, gpus_arg, child_env,
                 warnings, child_status, launches>>

\* lines 196-204: the tool runs and prints a report
Query(reports) ==
  /\ pc = "query"
  /\ Len(hist) < MaxCycles
  /\ \E r \in reports : stdout' = r
  /\ pc' = "parse"
  /\ UNCHANGED <<config, outside, cur_count, gpu_info_list, selected, gpus, hist,
                 prev_candidate>>

\* line 204: .expect("nvidia-smi execute failed")
QueryFails ==
  /\ pc = "query"
  /\ Len(hist) < MaxCycles
  /\ pc' = "panicked"
  /\ UNCHANGED <<config, outside, cur_count, stdout, gpu_info_list, selected, gpus, hist,
                 prev_candidate>>

\* a parse whose failure is taken for an insufficient cycle
ParseOrSkip ==
  /\ pc = "parse"
  /\ LET r == ParseReport(stdout, overflow_checks)
     IN IF r.ok
          THEN gpu_info_list' = r.val /\ pc' = "select"
          ELSE gpu_info_list' = gpu_info_list /\ pc' = "sleep"
  /\ UNCHANGED <<config, outside, cur_count, stdout, selected, gpus, hist, prev_candidate>>

\* lines 205-225: the report is parsed into the snapshot, or the thread panics
Parse ==
  /\ pc = "parse"
  /\ LET r == ParseReport(stdout, overflow_checks)
     IN IF r.ok
          THEN gpu_info_list' = r.val /\ pc' = "select"
          ELSE gpu_info_list' = gpu_info_list /\ pc' = "panicked"
  /\ UNCHANGED <<config, outside, cur_count, stdout, selected, gpus, hist, prev_candidate>>

\* line 262: the match scrutinee
Select ==
  /\ pc = "select"
  /\ selected' = check_resource_enough(gpu_info_list, core_count, memory_per_core,
                                       gpu_percent, overflow_checks)
  /\ pc' = IF selected'.kind = "Panic" THEN "panicked" ELSE "match"
  /\ stdout' = <<>>
  /\ UNCHANGED <<config, outside, cur_count, gpu_info_list, gpus, hist, prev_candidate>>

\* a comparison that admits at the configured count only
AdmitExact(count, cum) == count = cum

\* a comparison that wants one cycle more than configured
AdmitStrict(count, cum) == count > cum

\* line 266: cur_count >= cum_count
Admit(count, cum) == count >= cum

\* an insufficient cycle that leaves the counter as it is
KeepCount == cur_count

\* line 271: cur_count = 0
ResetCount == 0

\* a return of the candidate of the previous cycle, when there is one
StaleReturnValue ==
  IF prev_candidate.kind = "Some" THEN prev_candidate.val ELSE selected.val

\* line 267: return gpus
ReturnValue == selected.val

\* a sufficient cycle that is not counted
Uncounted == cur_count

\* line 264: cur_count += 1
Increment == cur_count + 1

\* lines 263-273: the arms of the match
Match ==
  /\ pc = "match"
  /\ hist' = Append(hist, selected.kind = "Some")
  /\ IF selected.kind = "Some"
       THEN /\ cur_count' = Increment
            /\ IF Admit(cur_count', cum_count)
                 THEN /\ pc' = "admitted"
                      /\ gpus' = ReturnValue
                      /\ UNCHANGED <<gpu_info_list, selected, prev_candidate>>
                 ELSE /\ pc' = "sleep"
                      /\ prev_candidate' = selected
                      /\ gpu_info_list' = <<>>
                      /\ selected' = Unset
                      /\ UNCHANGED gpus
       ELSE /\ cur_count' = ResetCount
            /\ pc' = "sleep"
            /\ prev_candidate' = None
            /\ gpu_info_list' = <<>>
            /\ selected' = Unset
            /\ UNCHANGED gpus
  /\ UNCHANGED <<config, outside, stdout>>

\* a loop that gives up after two cycles
AfterSleepCapped == IF Len(hist) >= 2 THEN "timed_out" ELSE "query"

\* lines 260, 276: the loop has no exit condition of its own
AfterSleep == "query"

\* line 275
Sleep ==
  /\ pc = "sleep"
  /\ pc' = AfterSleep
  /\ UNCHANGED <<config, outside, cur_count, stdout, gpu_info_list, selected, gpus, hist,
                 prev_candidate>>

-----------------------------------------------------------------------------
(* run_command                                                             *)

Comma == <<",">>

Equals == <<"=">>

\* str::splitn(2, sep): at most two pieces, split at the first sep
SplitN2(s, sep) ==
  LET i == IndexOf(s, sep)
  IN IF i = 0 THEN <<s>>
     ELSE <<SubSeq(s, 1, i - 1), SubSeq(s, i + Len(sep), Len(s))>>

\* Command::env and Command::env_remove: the command keeps, per name, the
\* latest of "set to v" (Some(v)) and "removed" (None)
CommandEnv(changes, name, value) ==
  {c \in changes : c[1] # name} \cup {<<name, Some(value)>>}

CommandEnvRemove(changes, name) ==
  {c \in changes : c[1] # name} \cup {<<name, None>>}

\* Command::spawn: the child has the inherited environment, changed
ChildEnviron(inherited, changes) ==
  {e \in inherited : \A c \in changes : c[1] # e[1]}
    \cup {<<c[1], c[2].val>> : c \in {d \in changes : d[2].kind = "Some"}}

\* an entry that is split at its last '='
SplitEntryAtLast(s) ==
  LET at == {i \in 1..Len(s) : s[i] = "="}
      i == IF at = {} THEN 0 ELSE CHOOSE k \in at : \A j \in at : j <= k
  IN IF i = 0 THEN <<s>> ELSE <<SubSeq(s, 1, i - 1), SubSeq(s, i + 1, Len(s))>>

\* line 292: s.splitn(2, "=")
SplitEntry(s) == SplitN2(s, Equals)

\* lines 291-298: the entries in order; one without '=' is warned about
\* and skipped
RECURSIVE SetEnvs(_, _, _)
SetEnvs(env, changes, warned) ==
  IF env = <<>> THEN [changes |-> changes, warned |-> warned]
  ELSE LET kvs == SplitEntry(Head(env))
       IN IF Len(kvs) # 2
            THEN SetEnvs(Tail(env), changes, Append(warned, Head(env)))
            ELSE SetEnvs(Tail(env), CommandEnv(changes, kvs[1], kvs[2]), warned)

\* lines 299-301
RECURSIVE ClearEnvs(_, _)
ClearEnvs(env_clear, changes) ==
  IF env_clear = <<>> THEN changes
  ELSE ClearEnvs(Tail(env_clear), CommandEnvRemove(changes, Head(env_clear)))

\* a command that removes first and sets afterwards
CommandChangesRemoveFirst(gpus_text, genv, env, env_clear) ==
  SetEnvs(env, CommandEnv(ClearEnvs(env_clear, {}), genv, gpus_text), <<>>)

\* lines 288-301: the changes of the command and the warnings
CommandChanges(gpus_text, genv, env, env_clear) ==
  LET set == SetEnvs(env, CommandEnv({}, genv, gpus_text), <<>>)
  IN [changes |-> ClearEnvs(env_clear, set.changes), warned |-> set.warned]

\* lines 185-191 and 286-303: main joins the ids and calls run_command,
\* which builds the command and spawns the child
RunCommand ==
  /\ pc = "admitted"
  /\ gpus_arg' = Join(gpus, Comma)
  /\ launches' = launches + 1
  /\ LET c == CommandChanges(gpus_arg', gpu_env, set_envs, unset_envs)
     IN /\ warnings' = c.warned
        /\ child_env' = ChildEnviron(environ, c.changes)
  /\ pc' = "waiting"
  /\ gpu_info_list' = <<>>
  /\ selected' = Unset
  /\ UNCHANGED <<config, cur_count, stdout, gpus, hist, prev_candidate, cli, file,
                 environ, launch_config, child_status, exit_code>>

\* line 303: .expect("Execute cmd failed")
SpawnFails ==
  /\ pc = "admitted"
  /\ gpus_arg' = Join(gpus, Comma)
  /\ launches' = launches + 1
  /\ warnings' = CommandChanges(gpus_arg', gpu_env, set_envs, unset_envs).warned
  /\ pc' = "panicked"
  /\ gpu_info_list' = <<>>
  /\ selected' = Unset
  /\ UNCHANGED <<config, cur_count, stdout, gpus, hist, prev_candidate, cli, file,
                 environ, launch_config, child_env, child_status, exit_code>>

\* the exit codes of the child
ExitCodes == {0, 1, 255}

Code(c) == [kind |-> "code", code |-> c]

Signalled == [kind |-> "signal"]

\* an exit that reports failure as 1 and everything else as 0
ExitWithFlattened(status) == Some(IF status.code = 0 THEN 0 ELSE 1)

\* line 306: exit(status.code().unwrap())
ExitWith(status) == Some(status.code)

\* lines 304-306: the child exits with a code
ChildExits ==
  /\ pc = "waiting"
  /\ \E c \in ExitCodes : child_status' = Code(c)
  /\ exit_code' = ExitWith(child_status')
  /\ pc' = "exited"
  /\ UNCHANGED <<config, cur_count, stdout, gpu_info_list, selected, gpus, hist,
                 prev_candidate, cli, file, environ, launch_config, gpus_arg,
                 child_env, warnings, launches>>

\* lines 304-306: the child is killed by a signal; status.code() is None
\* and the unwrap panics
ChildSignalled ==
  /\ pc = "waiting"
  /\ child_status' = Signalled
  /\ pc' = "panicked"
  /\ UNCHANGED <<config, cur_count, stdout, gpu_info_list, selected, gpus, hist,
                 prev_candidate, cli, file, environ, launch_config, gpus_arg,
                 child_env, warnings, exit_code, launches>>

\* the status the process ends with: the code given to exit, or the 101 of
\* a panicking main thread
ProcessStatus ==
  IF pc = "exited" THEN exit_code
  ELSE IF pc = "panicked" THEN Some(101) ELSE None

-----------------------------------------------------------------------------
(* The specifications.                                                     *)

Next ==
  \/ ReadConfig
  \/ ApplyOverrides
  \/ Prelude
  \/ Query(Reports)
  \/ QueryFails
  \/ Parse
  \/ Select
  \/ Match
  \/ Sleep
  \/ RunCommand
  \/ SpawnFails
  \/ ChildExits
  \/ ChildSignalled

Spec == Init /\ [][Next]_vars

\* the first polling cycle alone, over the larger reports, with the default
\* check_times
NextFirst ==
  \/ ReadConfig
  \/ ApplyOverrides
  \/ Prelude
  \/ hist = <<>> /\ Query(ReportsFirst)
  \/ hist = <<>> /\ QueryFails
  \/ hist = <<>> /\ Parse
  \/ hist = <<>> /\ Select
  \/ hist = <<>> /\ Match

InitFirst ==
  /\ overflow_checks \in BOOLEAN
  /\ cli \in LoopClis({None}, {None})
  /\ file = Absent
  /\ environ = BaseEnviron
  /\ Start

SpecFirst == InitFirst /\ [][NextFirst]_vars

\* the launch: a configuration file with the environment settings, two
\* sufficient units or one insufficient unit in each report
Foo == <<"F", "O", "O">>

AltGpuEnv == <<"G">>

Home == <<"H", "O", "M", "E">>

FooBarBaz == Foo \o <<"=", "b", "a", "r", "=", "b", "a", "z">>

FooX == Foo \o <<"=", "x">>

AltNine == AltGpuEnv \o <<"=", "9">>

EnvEntries == {FooBarBaz, FooX, AltNine, Foo}

EnvNames == {Foo, AltGpuEnv, Home}

FullEnviron ==
  {<<Home, <<"/">>>>, <<Foo, <<"o", "l", "d">>>>, <<AltGpuEnv, <<"7">>>>}

BoundedSeqs(S, n) == UNION {[1..m -> S] : m \in 0..n}

LaunchConfigs ==
  { [core_count |-> 2, memory_per_core |-> 0, gpu_percent |-> 0,
     check_times |-> 1, check_interval |-> 15, gpu_env |-> g,
     set_envs |-> s, unset_envs |-> u] :
      g \in {CudaVisibleDevices, AltGpuEnv},
      s \in BoundedSeqs(EnvEntries, MaxSetEnvs),
      u \in BoundedSeqs(EnvNames, MaxUnsetEnvs) }

NoOverrides(path, print, save, cmd) ==
  Cli(None, None, None, None, None, None, None, None, path, print, save, cmd)

LaunchReports ==
  { FormatReport(<<<<70, 16384>>, <<10, 8191>>>>), FormatReport(<<<<10, 8191>>>>) }

InitLaunch ==
  /\ overflow_checks \in BOOLEAN
  /\ cli = NoOverrides(Some(ConfigPath), FALSE, FALSE, TrueCmd)
  /\ file \in {ConfigFile(c) : c \in LaunchConfigs}
  /\ environ \in {BaseEnviron, FullEnviron}
  /\ Start

NextLaunch ==
  \/ ReadConfig
  \/ ApplyOverrides
  \/ Prelude
  \/ Query(LaunchReports)
  \/ QueryFails
  \/ Parse
  \/ Select
  \/ Match
  \/ Sleep
  \/ RunCommand
  \/ SpawnFails
  \/ ChildExits
  \/ ChildSignalled

SpecLaunch == InitLaunch /\ [][NextLaunch]_vars

\* the resolution of the configuration alone: every override given or not,
\* the configuration file missing, unreadable as a Config, or holding
\* FileConfig
FileConfig ==
  [core_count |-> 2, memory_per_core |-> 7, gpu_percent |-> 30,
   check_times |-> 3, check_interval |-> 5, gpu_env |-> AltGpuEnv,
   set_envs |-> <<AltNine>>, unset_envs |-> <<Home>>]

Opt(values) == {None} \cup {Some(v) : v \in values}

ConfigClis ==
  { Cli(cc, mpc, gp, ct, ci, ge, se, ue, path, print, save, cmd) :
      cc \in Opt({1, 4}), mpc \in Opt({9}), gp \in Opt({80}), ct \in Opt({0}),
      ci \in Opt({60}), ge \in Opt({<<"X">>}), se \in Opt({<<FooX>>}),
      ue \in Opt({<<Foo>>}), path \in Opt({ConfigPath}),
      print \in BOOLEAN, save \in BOOLEAN, cmd \in {<<>>, TrueCmd} }

InitConfig ==
  /\ overflow_checks \in BOOLEAN
  /\ cli \in ConfigClis
  /\ file \in {Absent, Garbage, ConfigFile(FileConfig)}
  /\ environ = BaseEnviron
  /\ Start

NextConfig ==
  \/ ReadConfig
  \/ ApplyOverrides
  \/ Prelude

SpecConfig == InitConfig /\ [][NextConfig]_vars

\* the loop under fairness: one unit is required, and a report holds one
\* unit that qualifies, one that does not, or a line that does not parse
LiveClis ==
  { Cli(Some(1), Some(7), Some(50), Some(k), None, None, None, None, None,
        FALSE, FALSE, TrueCmd) : k \in 0..MaxCheckTimes }

LiveReports ==
  { FormatReport(<<<<10, 8191>>>>), FormatReport(<<<<70, 16384>>>>),
    <<"x">> \o FieldSep \o <<"1", "0">> \o PercentSuffix \o FieldSep
      \o to_string(8191) \o MiBSuffix \o NewLine }

InitLive ==
  /\ overflow_checks \in BOOLEAN
  /\ cli \in LiveClis
  /\ file = Absent
  /\ environ = BaseEnviron
  /\ Start

\* the steps whose call returns at once or after a wait: all but the parse
LiveSteps ==
  \/ ReadConfig
  \/ ApplyOverrides
  \/ Prelude
  \/ Query(LiveReports)
  \/ QueryFails
  \/ Select
  \/ Match
  \/ Sleep
  \/ RunCommand
  \/ SpawnFails
  \/ ChildExits
  \/ ChildSignalled

NextLive == LiveSteps \/ Parse

\* every call returns: the query, the sleep, the wait for the child; and
\* the parse, which is the only step at its position, ends (weak fairness
\* of Parse, written out)
SpecLive ==
  InitLive /\ [][NextLive]_vars /\ WF_vars(LiveSteps) /\ []<>(pc # "parse")

-----------------------------------------------------------------------------
(* Properties.                                                             *)

\* cycles m-k+1 .. m of the history h were all sufficient
Window(h, m, k) == m >= k /\ \A i \in (m - k + 1)..m : h[i]

Probing == {"query", "parse", "select", "match", "sleep"}

\* C1 (debounce reset): when the latest finished cycle was insufficient the
\* counter is 0 on entry to the next cycle, and with check_times = 2 an
\* admission at cycle n has both cycle n-1 and cycle n sufficient (so the
\* cycles sufficient, insufficient, sufficient do not admit at cycle 3).
C1_DebounceReset ==
  /\ (pc \in {"sleep", "query"} /\ hist # <<>> /\ ~hist[Len(hist)]) => cur_count = 0
  /\ (cum_count = 2 /\ pc = "admitted") =>
       /\ Len(hist) >= 2
       /\ hist[Len(hist) - 1]
       /\ hist[Len(hist)]

\* C1 witness: check_times = 2, cycles 1..3 were sufficient, insufficient,
\* sufficient, and the loop is on its way to a fourth cycle.
C1_Witness ==
  /\ cum_count = 2
  /\ hist = <<TRUE, FALSE, TRUE>>
  /\ pc = "query"
  /\ cur_count = 1

\* C2 (debounce commit): for check_times = k >= 1 the loop has admitted at
\* cycle n exactly when cycles n-k+1..n are all sufficient and no earlier
\* cycle ended a run of k sufficient cycles: an admitted history ends in its
\* first such run, and a history that is not admitted holds no such run.
C2_DebounceCommit ==
  cum_count >= 1 =>
    /\ pc = "admitted" =>
         /\ Window(hist, Len(hist), cum_count)
         /\ \A m \in 1..(Len(hist) - 1) : ~Window(hist, m, cum_count)
    /\ pc \in Probing => \A m \in 1..Len(hist) : ~Window(hist, m, cum_count)

\* C2 witness: check_times = 3 and three sufficient cycles after an
\* insufficient one admit on the third of them.
C2_Witness ==
  /\ cum_count = 3
  /\ pc = "admitted"
  /\ hist = <<FALSE, TRUE, TRUE, TRUE>>

Max(a, b) == IF a >= b THEN a ELSE b

\* C3 as stated (zero-requirement fast path): with core_count = 0 the
\* selection of every cycle is Some(empty list), and the loop is admitted,
\* with the empty list, as soon as its first cycle has been matched,
\* whatever check_times is.
C3_AdmitsOnFirstCycle ==
  core_count = 0 =>
    /\ pc = "match" => selected = Some(<<>>)
    /\ hist # <<>> => (pc \notin Probing /\ Len(hist) = 1 /\ gpus = <<>>)

\* C3 as amended: with core_count = 0 the selection of every cycle is
\* Some(empty list), so every cycle that reaches the selector is sufficient,
\* and the loop admits, with the empty list, at cycle max(1, check_times):
\* on the first cycle only when check_times <= 1.
C3_ZeroRequirement ==
  core_count = 0 =>
    /\ pc = "match" => selected = Some(<<>>)
    /\ \A i \in 1..Len(hist) : hist[i]
    /\ pc = "admitted" => (gpus = <<>> /\ Len(hist) = Max(1, cum_count))
    /\ pc \in {"sleep", "query", "parse", "select"} => Len(hist) < Max(1, cum_count)

\* C3 witness: nothing required, two stability cycles, a snapshot with units
\* in it, and the admission is at the second cycle.
C3_Witness ==
  /\ core_count = 0
  /\ cum_count = 2
  /\ pc = "admitted"
  /\ Len(hist) = 2
  /\ gpu_info_list # <<>>
  /\ gpus = <<>>

\* C4 (latest set is returned): the list returned on admission is the
\* selector's output for the snapshot of the admitting cycle.
C4_ReturnsLatestSet ==
  pc = "admitted" =>
    /\ selected.kind = "Some"
    /\ gpus = selected.val
    /\ selected = check_resource_enough(gpu_info_list, core_count, memory_per_core,
                                        gpu_percent, overflow_checks)

\* C4 witness: an admission whose stability window holds an earlier cycle
\* with a candidate set of other members than the returned one.
C4_Witness ==
  /\ pc = "admitted"
  /\ cum_count >= 2
  /\ prev_candidate.kind = "Some"
  /\ {prev_candidate.val[i] : i \in 1..Len(prev_candidate.val)}
       # {gpus[i] : i \in 1..Len(gpus)}

\* the unit meets both thresholds (unsigned comparison of the free percent)
MeetsThresholds(g) ==
  /\ ~(g.memory_free < memory_per_core)
  /\ ~ULess(g.gpu_free, gpu_percent)

QualifyingPositions == {j \in 1..Len(gpu_info_list) : MeetsThresholds(gpu_info_list[j])}

\* C5 (selector qualification): every id of a selection is the id of a unit
\* of the snapshot that meets both thresholds, and no unit below a threshold
\* has its id in the selection.
C5_SelectorQualification ==
  (pc = "match" /\ selected.kind = "Some") =>
    /\ \A i \in 1..Len(selected.val) :
         \E j \in QualifyingPositions :
           selected.val[i] = to_string(gpu_info_list[j].index)
    /\ \A j \in 1..Len(gpu_info_list) :
         ~MeetsThresholds(gpu_info_list[j]) =>
           \A i \in 1..Len(selected.val) :
             selected.val[i] # to_string(gpu_info_list[j].index)

\* C5 witness: a selection from a snapshot with a unit short of memory only
\* and a unit short of free percent only.
C5_Witness ==
  /\ pc = "match"
  /\ selected.kind = "Some"
  /\ selected.val # <<>>
  /\ \E j \in 1..Len(gpu_info_list) :
       /\ gpu_info_list[j].memory_free < memory_per_core
       /\ ~ULess(gpu_info_list[j].gpu_free, gpu_percent)
  /\ \E j \in 1..Len(gpu_info_list) :
       /\ ~(gpu_info_list[j].memory_free < memory_per_core)
       /\ ULess(gpu_info_list[j].gpu_free, gpu_percent)

\* C6 (selector count): the selection is None exactly when fewer than
\* core_count units of the snapshot qualify; otherwise it has exactly
\* core_count ids, the ids of core_count different qualifying records.
C6_SelectorCount ==
  pc = "match" =>
    /\ selected.kind \in {"Some", "None"}
    /\ selected = None <=> Cardinality(QualifyingPositions) < core_count
    /\ selected.kind = "Some" =>
         /\ Len(selected.val) = core_count
         /\ \E f \in [1..core_count -> QualifyingPositions] :
              /\ \A a, b \in 1..core_count : a # b => f[a] # f[b]
              /\ \A a \in 1..core_count :
                   selected.val[a] = to_string(gpu_info_list[f[a]].index)

\* C6 witness: more units qualify than are required, and exactly core_count
\* ids are selected.
C6_Witness ==
  /\ pc = "match"
  /\ core_count = 2
  /\ Cardinality(QualifyingPositions) = 3
  /\ selected.kind = "Some"
  /\ Len(selected.val) = 2

\* C6 witness of the other case: one unit short, and no partial result.
C6_WitnessInsufficient ==
  /\ pc = "match"
  /\ core_count = 2
  /\ Cardinality(QualifyingPositions) = 1
  /\ selected = None

\* unit j is ranked before unit k: more free percent (unsigned), or as much
\* and earlier in the snapshot
RankedBefore(j, k) ==
  \/ ULess(gpu_info_list[k].gpu_free, gpu_info_list[j].gpu_free)
  \/ gpu_info_list[j].gpu_free = gpu_info_list[k].gpu_free /\ j < k

\* C7 (selector ranking): a selection lists the first core_count qualifying
\* units in order of descending free percent, units of equal free percent in
\* snapshot order: its i-th id is the id of the qualifying unit that exactly
\* i-1 qualifying units are ranked before.
C7_SelectorRanking ==
  (pc = "match" /\ selected.kind = "Some") =>
    \A i \in 1..Len(selected.val) :
      \E j \in QualifyingPositions :
        /\ Cardinality({k \in QualifyingPositions : RankedBefore(k, j)}) = i - 1
        /\ selected.val[i] = to_string(gpu_info_list[j].index)

\* the ranking of C7 on the snapshots whose free percents are all within
\* 0..100
C7_RankingWithinRange ==
  (\A j \in 1..Len(gpu_info_list) : gpu_info_list[j].gpu_free \in 0..100)
    => C7_SelectorRanking

\* the example of C7: units of free percent 30, 90, 90, 50, two required,
\* zero thresholds, and the selection is [1, 2]
C7_Example ==
  /\ pc = "match"
  /\ [j \in 1..Len(gpu_info_list) |-> gpu_info_list[j].gpu_free] = <<30, 90, 90, 50>>
  /\ core_count = 2 /\ memory_per_core = 0 /\ gpu_percent = 0
  /\ selected = Some(<<<<"1">>, <<"2">>>>)

\* C8 (no retry cap): a cycle that does not admit goes to sleep and from
\* there to the next query; the loop leaves the probing positions only by
\* admission or by a panic and is never entered again; and a sleeping loop
\* can always go on.
C8_NoRetryCap ==
  /\ [][/\ (pc = "match" /\ pc' # "admitted") => pc' = "sleep"
        /\ pc = "sleep" => pc' = "query"
        /\ (pc \in Probing /\ pc' \notin Probing) => pc' \in {"admitted", "panicked"}
        /\ pc' \in Probing => pc \in Probing \cup {"resolved"}]_vars
  /\ [](pc = "sleep" => ENABLED Sleep)
  /\ []((pc = "query" /\ Len(hist) < MaxCycles) => ENABLED Query(Reports))

\* C8 witness: three cycles without a completed window, and the loop is
\* about to take the next snapshot.
C8_Witness ==
  /\ pc = "query"
  /\ cum_count >= 1
  /\ Len(hist) = 3
  /\ \A m \in 1..Len(hist) : ~Window(hist, m, cum_count)

\* the lines of a report, without the empty piece after its last newline
RecordLines(text) ==
  LET lines == Split(text, NewLine)
  IN IF lines[Len(lines)] = <<>> THEN SubSeq(lines, 1, Len(lines) - 1) ELSE lines

EndsWith(s, suffix) ==
  Len(s) >= Len(suffix) /\ SubSeq(s, Len(s) - Len(suffix) + 1, Len(s)) = suffix

\* the line is "<index>, <busy> %, <free> MiB" with three parsable numbers
WellFormedLine(line) ==
  LET fields == Split(line, FieldSep)
  IN /\ Len(fields) >= 3
     /\ ParseUnsigned(fields[1]).ok
     /\ EndsWith(fields[2], PercentSuffix)
     /\ ParseUnsigned(SubSeq(fields[2], 1, Len(fields[2]) - 2)).ok
     /\ EndsWith(fields[3], MiBSuffix)
     /\ ParseUnsigned(SubSeq(fields[3], 1, Len(fields[3]) - 4)).ok

\* C9 (malformed records are rejected): when parse_cuda_info has returned a
\* snapshot, every line of the report is a well-formed record line and has
\* produced one record: no line with an unparsable number or without its
\* unit suffix was accepted or skipped.
C9_RejectsMalformed ==
  pc = "select" =>
    /\ \A i \in 1..Len(RecordLines(stdout)) : WellFormedLine(RecordLines(stdout)[i])
    /\ Len(gpu_info_list) = Len(RecordLines(stdout))

\* the part of C9 that the parser does enforce: every record comes from a
\* line whose index, whose busy text without its last 2 characters and whose
\* free-memory text without its last 4 characters are numbers
C9_UnparsableNumberPanics ==
  pc = "select" =>
    \A i \in 1..Len(gpu_info_list) :
      LET fields == Split(Split(stdout, NewLine)[i], FieldSep)
      IN /\ Len(fields) >= 3
         /\ ParseUnsigned(fields[1]).ok
         /\ Len(fields[2]) >= 2
         /\ ParseUnsigned(SubSeq(fields[2], 1, Len(fields[2]) - 2)).ok
         /\ Len(fields[3]) >= 4
         /\ ParseUnsigned(SubSeq(fields[3], 1, Len(fields[3]) - 4)).ok

\* the free memory, in MiB, that line i of the report states
ReportedMiB(i) ==
  LET field == Split(Split(stdout, NewLine)[i], FieldSep)[3]
  IN DigitsValue(SubSeq(field, 1, Len(field) - 4), 0)

\* C10 (memory conversion): the memory_free of every record is the floor of
\* the reported MiB over 1024: the largest g with g * 1024 <= m.
C10_MemoryConversion ==
  pc = "select" =>
    \A i \in 1..Len(gpu_info_list) :
      /\ gpu_info_list[i].memory_free * 1024 <= ReportedMiB(i)
      /\ ReportedMiB(i) < (gpu_info_list[i].memory_free + 1) * 1024

\* C10 witness: 8191 MiB gives 7 and 16384 MiB gives 16.
C10_Witness ==
  /\ pc = "select"
  /\ \E i \in 1..Len(gpu_info_list) :
       ReportedMiB(i) = 8191 /\ gpu_info_list[i].memory_free = 7
  /\ \E i \in 1..Len(gpu_info_list) :
       ReportedMiB(i) = 16384 /\ gpu_info_list[i].memory_free = 16

\* an entry of set_envs that holds a '='
HasEquals(e) == \E i \in 1..Len(e) : e[i] = "="

FirstEquals(e) == CHOOSE i \in 1..Len(e) : e[i] = "=" /\ \A j \in 1..(i - 1) : e[j] # "="

NameOf(e) == SubSeq(e, 1, FirstEquals(e) - 1)

ValueOf(e) == SubSeq(e, FirstEquals(e) + 1, Len(e))

\* the values a name has in an environment: none or one
ValuesOf(env, name) == {p[2] : p \in {q \in env : q[1] = name}}

UnsetNames == {unset_envs[i] : i \in 1..Len(unset_envs)}

\* the positions of the entries of set_envs that set name
Setting(name) ==
  {i \in 1..Len(set_envs) : HasEquals(set_envs[i]) /\ NameOf(set_envs[i]) = name}

\* C11 (env override parsing): once the command is launched, every entry of
\* set_envs without '=' has been warned about, in order, and nothing else
\* has; every entry with '=' whose name no later entry sets and no unset
\* entry removes has given the child its name, up to the first '=', with
\* the value that is everything after the first '='; the text of an entry
\* without '=' names nothing that the entry changed; and the command was
\* launched once.
C11_EnvOverrideParsing ==
  pc = "waiting" =>
    /\ launches = 1
    /\ warnings = SelectSeq(set_envs, LAMBDA e : ~HasEquals(e))
    /\ \A i \in 1..Len(set_envs) :
         LET e == set_envs[i]
         IN IF HasEquals(e)
              THEN (/\ NameOf(e) \notin UnsetNames
                    /\ \A j \in Setting(NameOf(e)) : j <= i)
                   => ValuesOf(child_env, NameOf(e)) = {ValueOf(e)}
              ELSE (e \notin UnsetNames /\ Setting(e) = {} /\ e # gpu_env)
                   => ValuesOf(child_env, e) = ValuesOf(environ, e)

\* C11 witness: "FOO" is skipped with a warning and the entry after it,
\* "FOO=bar=baz", sets FOO to "bar=baz" in the launched command.
C11_Witness ==
  /\ pc = "waiting"
  /\ set_envs = <<Foo, FooBarBaz>>
  /\ warnings = <<Foo>>
  /\ <<Foo, <<"b", "a", "r", "=", "b", "a", "z">>>> \in child_env

\* the ids joined by commas, in the order of the list
RECURSIVE CommaJoined(_)
CommaJoined(ids) ==
  IF ids = <<>> THEN <<>>
  ELSE IF Len(ids) = 1 THEN ids[1]
  ELSE ids[1] \o <<",">> \o CommaJoined(Tail(ids))

\* every name the launch can touch
LaunchNames ==
  {p[1] : p \in environ \cup child_env} \cup UnsetNames \cup {gpu_env}
    \cup {NameOf(set_envs[i]) : i \in {j \in 1..Len(set_envs) : HasEquals(set_envs[j])}}

\* C12 (launcher environment order): the child's environment is the
\* inherited one changed by setting gpu_env to the admitted ids joined by
\* commas in the selector's order, then the well-formed entries of set_envs
\* in order, then the removal of the names of unset_envs. Per name: a name
\* of unset_envs is absent; otherwise the last well-formed entry that sets
\* it gives its value; otherwise gpu_env holds the joined ids; otherwise
\* the inherited value stays.
C12_LauncherEnvOrder ==
  pc = "waiting" =>
    \A n \in LaunchNames :
      ValuesOf(child_env, n) =
        IF n \in UnsetNames THEN {}
        ELSE IF Setting(n) # {}
          THEN {ValueOf(set_envs[i]) :
                  i \in {j \in Setting(n) : \A k \in Setting(n) : k <= j}}
        ELSE IF n = gpu_env THEN {CommaJoined(gpus)}
        ELSE ValuesOf(environ, n)

\* C12 witness: gpu_env is G, set_envs sets G to 9 and FOO to x, unset_envs
\* removes FOO, and the inherited environment holds FOO and G: the child
\* has G = 9 and no FOO.
C12_Witness ==
  /\ pc = "waiting"
  /\ gpu_env = AltGpuEnv
  /\ set_envs = <<AltNine, FooX>>
  /\ unset_envs = <<Foo>>
  /\ environ = FullEnviron
  /\ gpus = <<<<"1">>, <<"0">>>>
  /\ child_env = {<<Home, <<"/">>>>, <<AltGpuEnv, <<"9">>>>}

\* C12, second case: nothing collides and the child has the two admitted
\* ids, best unit first, in CUDA_VISIBLE_DEVICES.
C12_WitnessJoined ==
  /\ pc = "waiting"
  /\ set_envs = <<>>
  /\ unset_envs = <<>>
  /\ <<CudaVisibleDevices, <<"1", ",", "0">>>> \in child_env

\* C13 (exit-code propagation): a child that has terminated with exit code
\* c means the process has exited with code c; a child terminated by a
\* signal means the process has aborted by a panic, has called exit with no
\* code at all, and ends with a status that is not zero.
C13_ExitCodePropagation ==
  /\ child_status.kind = "code" =>
       /\ pc = "exited"
       /\ exit_code = Some(child_status.code)
       /\ ProcessStatus = Some(child_status.code)
  /\ child_status.kind = "signal" =>
       /\ pc = "panicked"
       /\ exit_code = None
       /\ ProcessStatus.kind = "Some" /\ ProcessStatus.val # 0

\* C13 witness: the child exited with code 255 and so did the process.
C13_Witness ==
  /\ child_status = Code(255)
  /\ pc = "exited"
  /\ ProcessStatus = Some(255)

\* C13, second case: the child was killed by a signal and the process
\* panicked.
C13_WitnessSignal ==
  /\ child_status = Signalled
  /\ pc = "panicked"

\* the defaults as the configuration reference gives them
BuiltInDefaults ==
  [core_count |-> 1, memory_per_core |-> 1, gpu_percent |-> 50,
   check_times |-> 1, check_interval |-> 15,
   gpu_env |-> <<"C", "U", "D", "A", "_", "V", "I", "S", "I", "B", "L", "E", "_",
                 "D", "E", "V", "I", "C", "E", "S">>,
   set_envs |-> <<>>, unset_envs |-> <<>>]

Fields ==
  {"core_count", "memory_per_core", "gpu_percent", "check_times",
   "check_interval", "gpu_env", "set_envs", "unset_envs"}

\* C14 (config precedence): when the configuration is resolved, each field
\* holds the command-line override when one is given, and otherwise the
\* value of the file, or the built-in default when no file was read; so an
\* override of one field leaves every other field as the file or the
\* defaults give it.
C14_ConfigPrecedence ==
  pc = "resolved" =>
    \A f \in Fields :
      EffectiveConfig[f] =
        IF cli[f].kind = "Some" THEN cli[f].val
        ELSE IF file.kind = "config" THEN file.val[f]
        ELSE BuiltInDefaults[f]

\* C14 witness: the file holds FileConfig, the only override is
\* core_count = 1, and the resolved configuration is FileConfig with
\* core_count 1.
C14_Witness ==
  /\ pc = "resolved"
  /\ file = ConfigFile(FileConfig)
  /\ cli.core_count = Some(1)
  /\ \A f \in Fields \ {"core_count"} : cli[f] = None
  /\ EffectiveConfig = [FileConfig EXCEPT !.core_count = 1]

\* C14, second case: no file, gpu_percent is overridden and the rest are
\* the defaults.
C14_WitnessDefaults ==
  /\ pc = "resolved"
  /\ file = Absent
  /\ cli.gpu_percent = Some(80)
  /\ EffectiveConfig = [BuiltInDefaults EXCEPT !.gpu_percent = 80]

\* C15 (config file absence): with an explicit configuration path and no
\* file there, the process never leaves the start except by a panic, with
\* no telemetry query made and nothing launched; with no path and no
\* default file, reading the configuration does not panic and yields the
\* built-in defaults (core_count 1, memory_per_core 1, gpu_percent 50,
\* check_times 1, check_interval 15, gpu_env CUDA_VISIBLE_DEVICES, empty
\* lists), from which the run goes on.
C15_ConfigFileAbsence ==
  /\ []((cli.config_path.kind = "Some" /\ file = Absent) =>
          /\ pc \in {"main", "panicked"}
          /\ hist = <<>> /\ stdout = <<>> /\ launches = 0)
  /\ []((cli.config_path = None /\ file = Absent /\ pc = "overrides") =>
          EffectiveConfig = BuiltInDefaults)
  /\ [][(cli.config_path = None /\ file = Absent /\ pc = "main") =>
          pc' = "overrides"]_vars

\* C15 witness: the explicit path names no file and the process has
\* panicked at the start.
C15_Witness ==
  /\ cli.config_path = Some(ConfigPath)
  /\ file = Absent
  /\ pc = "panicked"
  /\ hist = <<>>

\* C15, second case: no path, no file, and the configuration read is the
\* defaults.
C15_WitnessDefaults ==
  /\ cli.config_path = None
  /\ file = Absent
  /\ pc = "overrides"
  /\ EffectiveConfig = BuiltInDefaults

\* C16 (fatal telemetry propagation): a report that does not parse makes
\* the parse step panic, and a query or parse step that panics finishes no
\* cycle and leaves the counter as it was; after a panic nothing happens
\* any more: no query, no sleep, no admission, no launch; and the query can
\* fail in any cycle.
C16_FatalTelemetry ==
  /\ [][/\ (pc = "parse" /\ ~ParseReport(stdout, overflow_checks).ok) =>
             pc' = "panicked"
        /\ (pc \in {"query", "parse"} /\ pc' = "panicked") =>
             /\ hist' = hist /\ cur_count' = cur_count
             /\ launches' = 0 /\ gpus' = <<>>
        /\ pc = "panicked" =>
             /\ pc' = "panicked"
             /\ hist' = hist /\ stdout' = stdout /\ launches' = launches]_vars
  /\ []((pc = "query" /\ Len(hist) < MaxCycles) => ENABLED QueryFails)

\* C16 witness: with check_times = 3 and the counter at 1 after a
\* sufficient cycle, the report of the second cycle does not parse and the
\* process has panicked with nothing launched.
C16_Witness ==
  /\ pc = "panicked"
  /\ cum_count = 3
  /\ cur_count = 1
  /\ hist = <<TRUE>>
  /\ stdout # <<>>
  /\ ~ParseReport(stdout, overflow_checks).ok
  /\ launches = 0

\* C16, second case: the query itself fails with the counter at 1.
C16_WitnessQuery ==
  /\ pc = "panicked"
  /\ cur_count = 1
  /\ stdout = <<>>
  /\ selected = Unset
  /\ launches = 0

\* C17 (launch only after admission, once): the command is launched only
\* from the admitted position, where the loop has returned the ids the last
\* selection gave, and it is given exactly these ids, joined; it is
\* launched at most once and never while the configuration is resolved or
\* the loop is probing; and from admission on no query, parse or selection
\* happens: the history, the report and the returned ids stay as they are
\* and the loop is not entered again.
C17_LaunchAfterAdmission ==
  /\ [][/\ launches' # launches =>
             /\ pc = "admitted"
             /\ launches = 0 /\ launches' = 1
             /\ selected = Some(gpus)
             /\ gpus_arg' = CommaJoined(gpus)
        /\ pc \notin (Probing \cup Resolving) =>
             /\ pc' \notin (Probing \cup Resolving)
             /\ hist' = hist /\ stdout' = stdout /\ gpus' = gpus
             /\ cur_count' = cur_count]_vars
  /\ [](launches <= 1)
  /\ [](pc \in (Probing \cup Resolving) => launches = 0 /\ gpus_arg = <<>>)

\* C17 witness: two units were admitted, best first, and the command was
\* launched once with "1,0".
C17_Witness ==
  /\ pc = "waiting"
  /\ launches = 1
  /\ gpus = <<<<"1">>, <<"0">>>>
  /\ gpus_arg = <<"1", ",", "0">>

\* the snapshot in hand holds at least core_count units that meet both
\* thresholds
SnapshotSufficient == ~ULess(Cardinality(QualifyingPositions), core_count)

\* C18 (eventual admission): for every cycle number s, if the process never
\* panics while resolving or probing, every snapshot after cycle s holds at
\* least core_count qualifying units, and the cycle s + max(1, check_times)
\* is within the cycles explored, then the loop is eventually admitted, at
\* cycle s + max(1, check_times) at the latest.
C18_EventualAdmission ==
  \A s \in 0..MaxCycles :
    ( /\ [](pc = "panicked" => launches = 1)
      /\ []((pc \in {"select", "match"} /\ Len(hist) >= s) => SnapshotSufficient)
      /\ [](pc \in Probing => s + Max(1, cum_count) <= MaxCycles) )
    => <>(pc = "admitted" /\ Len(hist) <= s + Max(1, cum_count))

\* C18 witness: check_times = 3, one insufficient cycle and then three
\* sufficient ones, admitted at cycle 1 + 3.
C18_Witness ==
  /\ pc = "admitted"
  /\ cum_count = 3
  /\ hist = <<FALSE, TRUE, TRUE, TRUE>>
  /\ core_count = 1
  /\ SnapshotSufficient

\* C19 (utilization complement and range): the records parsed from a
\* report of units with busy percentages b hold, unit by unit, a free
\* percent that is 100 - b and lies in 0..100.
C19_UtilizationRange ==
  pc = "select" =>
    /\ \A j \in 1..Len(gpu_info_list) : gpu_info_list[j].gpu_free \in 0..100
    /\ \A u \in UnitSeqs(MaxUnitsFirst) :
         stdout = FormatReport(u) =>
           /\ Len(gpu_info_list) = Len(u)
           /\ \A j \in 1..Len(u) : gpu_info_list[j].gpu_free = 100 - u[j][1]

\* C19, within range: a unit reported at most 100 percent busy gives a free
\* percent of 100 - b in 0..100.
C19_ComplementWithinRange ==
  pc = "select" =>
    \A u \in UnitSeqs(MaxUnitsFirst) :
      (stdout = FormatReport(u) /\ \A j \in 1..Len(u) : u[j][1] <= 100) =>
        /\ Len(gpu_info_list) = Len(u)
        /\ \A j \in 1..Len(u) :
             /\ gpu_info_list[j].gpu_free = 100 - u[j][1]
             /\ gpu_info_list[j].gpu_free \in 0..100

\* C19, the failing case: a build without overflow checks has parsed a unit
\* reported 101 percent busy into a record.
C19_WrappedRecord ==
  /\ pc = "select"
  /\ ~overflow_checks
  /\ stdout = FormatReport(<<<<101, 16384>>>>)
  /\ Len(gpu_info_list) = 1
  /\ gpu_info_list[1].gpu_free \notin 0..100

\* C20 (check_times = 0 behaves like 1): with check_times 0, as with
\* check_times 1, a loop that is still probing has seen no sufficient cycle,
\* and an admitted loop has seen exactly one, its last: it admits on the
\* first sufficient cycle and never without one.
C20_ZeroChecksLikeOne ==
  (cli.check_times \in {Some(0), Some(1)} /\ cum_count = cli.check_times.val) =>
    /\ pc \in Probing => \A i \in 1..Len(hist) : ~hist[i]
    /\ pc = "admitted" =>
         /\ hist # <<>>
         /\ hist[Len(hist)]
         /\ \A i \in 1..(Len(hist) - 1) : ~hist[i]
         /\ cur_count = 1

\* C20 witness: check_times is 0, the first cycle was insufficient, the
\* second was sufficient and admitted.
C20_Witness ==
  /\ cli.check_times = Some(0)
  /\ cum_count = 0
  /\ pc = "admitted"
  /\ hist = <<FALSE, TRUE>>

====
